---- MODULE Spec2Model ----
(***************************************************************************)
(* Model of the chat pipeline orchestrator of chatbot-filkom               *)
(* (app/services/chat_pipeline.py) together with the parts of the intent,  *)
(* entity, search and template services that decide what it returns.       *)
(*                                                                         *)
(* Text is modelled as a sequence of one-character strings, so that        *)
(* strip(), lower() and the f-string keys are computed as the code         *)
(* computes them.  Optional values are <<>> (None) or <<v>>.               *)
(* Confidences are integers in units of 1/ConfUnit.                        *)
(***************************************************************************)
EXTENDS Integers, Sequences, FiniteSets, TLC

VARIABLES
    contexts,        \* ChatPipeline.contexts : context_key -> ChatContext
    cache,           \* ChatPipeline._cache   : cache_key -> PipelineResult
    intentLoaded,    \* intent_service.is_loaded
    nerLoaded,       \* ner_service.is_loaded
    searchLoaded,    \* search_service.is_loaded
    intentModel,     \* the function the loaded classifier computes
    kb,              \* the knowledge base as the loader parsed it (read only)
    now,             \* logical clock: it advances by one with every turn record written
    appended,        \* history variable: every turn appended to a context since it was created
    served,          \* history variable: process_message calls per (user, session), saturating
    computed,        \* history variable: the results computed on cache misses, with their arguments
    last,            \* history variable: the last API call and what it returned
    threads,         \* the frame of each thread that is inside process_message
    heap             \* the ChatContext objects that threads hold by reference

vars == <<contexts, cache, intentLoaded, nerLoaded, searchLoaded, intentModel, kb,
          now, appended, served, computed, last, threads, heap>>

-----------------------------------------------------------------------------
(* Optional values *)

None == <<>>

Some(v) == <<v>>

-----------------------------------------------------------------------------
(* Text *)

Whitespace == {" "}

\* str.lower() on the characters the model uses
LowerChar(c) ==
    CASE c = "H" -> "h"
      [] c = "A" -> "a"
      [] OTHER -> c

Lower(s) == [i \in 1..Len(s) |-> LowerChar(s[i])]

RECURSIVE LStrip(_)
LStrip(s) ==
    IF s # <<>> /\ s[1] \in Whitespace THEN LStrip(Tail(s)) ELSE s

RECURSIVE RStrip(_)
RStrip(s) ==
    IF s # <<>> /\ s[Len(s)] \in Whitespace THEN RStrip(SubSeq(s, 1, Len(s) - 1)) ELSE s

\* str.strip()
Strip(s) == RStrip(LStrip(s))

\* ' '.join(s.split()) on an already stripped text: runs of whitespace become one blank
RECURSIVE CollapseSpaces(_)
CollapseSpaces(s) ==
    IF Len(s) < 2 THEN s
    ELSE IF s[1] \in Whitespace /\ s[2] \in Whitespace THEN CollapseSpaces(Tail(s))
    ELSE IF s[1] \in Whitespace THEN <<" ">> \o CollapseSpaces(Tail(s))
    ELSE <<s[1]>> \o CollapseSpaces(Tail(s))

\* the printed form of a text, for the response strings
RECURSIVE Str(_)
Str(s) == IF s = <<>> THEN "" ELSE s[1] \o Str(Tail(s))

-----------------------------------------------------------------------------
(* Inputs *)

\* a Python value passed as `message`: a str (kind "str") or something else (an int)
StrMsg(chars) == [kind |-> "str", chars |-> chars]

MsgHi == StrMsg(<<"H", "i">>)

MsgHiPadded == StrMsg(<<" ", "h", "i">>)

MsgEmpty == StrMsg(<<>>)

MsgInt == [kind |-> "int", chars |-> <<"7">>]

ValidMessages == {MsgHi, MsgHiPadded}

\* a client's script of distinct one-letter messages, the first ScriptLength of the alphabet
Alphabet ==
    << "a", "b", "c", "d", "e", "f", "g", "h", "i", "j", "k", "l", "m", "n", "o", "p" >>

ScriptLength == 12

Script == [i \in 1..ScriptLength |-> StrMsg(<<Alphabet[i]>>)]

InvalidMessages == {MsgEmpty, MsgInt}

Messages == ValidMessages \cup InvalidMessages

\* (user_id, session_id) pairs of two users
IdPairs == { << <<"a">>, <<"c">> >>, << <<"b">>, <<"c">> >> }

\* (user_id, session_id) pairs whose ids contain the separators "_" and "::"
SeparatorIdPairs ==
    { << <<"a">>, <<"b", "_", "c">> >>,
      << <<"a", "_", "b">>, <<"c">> >>,
      << <<"a">>, <<"b", ":", ":", "c">> >>,
      << <<"a", ":", ":", "b">>, <<"c">> >> }

-----------------------------------------------------------------------------
(* Configuration of the pipeline *)

\* confidences are integers in units of 1/ConfUnit
ConfUnit == 100000

\* ChatPipeline.intent_threshold = 0.85
IntentThreshold == 85000

\* ChatPipeline.fallback_threshold = 0.5
FallbackThreshold == 50000

\* the history keeps the last HistoryLimit turns
HistoryLimit == 10

\* fuzzy matches are accepted from this fuzz.ratio score on
FuzzyThreshold == 75

TemplateIntents == {"GREETING", "HELP", "GOODBYE", "CLARIFICATION"}

LongFormIntents == {"PANDUAN_KRS", "PROSEDUR_CUTI"}

\* labels of the classifier that the model uses, out of the 23 of the intent mapping
IntentLabels ==
    TemplateIntents \cup LongFormIntents \cup {"DOSEN_PENGAMPU", "OUT_OF_SCOPE"}

-----------------------------------------------------------------------------
(* Intent service *)

\* IntentClassificationService._preprocess_text
PreprocessText(text) == CollapseSpaces(Strip(text))

\* what the tokenizer (do_lower_case=True) hands to the classifier
ClassifierInput(text) == Lower(PreprocessText(text))

ModelTexts ==
    {<<>>} \cup {ClassifierInput(m.chars) : m \in ValidMessages}
        \cup {<<Alphabet[i]>> : i \in 1..Len(Alphabet)}

Prediction(intent, confidence) == [intent |-> intent, confidence |-> confidence]

\* the classifier of the deployment: its answer for every text of the model
DefaultIntentModel ==
    [t \in ModelTexts |->
        CASE t \in {<<"a">>, <<"g">>, <<"m">>} -> Prediction("GREETING", 99000)
          [] t \in {<<"b">>, <<"h">>, <<"n">>} -> Prediction("PANDUAN_KRS", 30000)
          [] t \in {<<"c">>, <<"i">>, <<"o">>} -> Prediction("DOSEN_PENGAMPU", 93000)
          [] t \in {<<"d">>, <<"j">>, <<"p">>} -> Prediction("OUT_OF_SCOPE", 22000)
          [] t \in {<<"e">>, <<"k">>} -> Prediction("HELP", 40000)
          [] OTHER -> Prediction("OUT_OF_SCOPE", 60000)]

\* predict_intent: raises IntentClassificationError("Model not loaded.") when not loaded
PredictIntent(text, loaded, model) ==
    IF ~loaded
    THEN [raised |-> TRUE, error |-> "Model not loaded.",
          intent |-> "", confidence |-> 0]
    ELSE [raised |-> FALSE, error |-> "",
          intent |-> model[ClassifierInput(text)].intent,
          confidence |-> model[ClassifierInput(text)].confidence]

-----------------------------------------------------------------------------
(* Entity service *)

\* what the loaded NER model finds in a text: entity type -> list of values, in order
NerEntities(text) ==
    IF text = <<" ", "h", "i">> THEN << <<"HARI", << <<"h", "i">> >> >> >>
    ELSE IF text = <<"c">> THEN << <<"MATA_KULIAH", << <<"c">> >> >> >>
    ELSE <<>>

\* extract_key_entities: predict raises RuntimeError("NER model not loaded.") when not loaded
ExtractKeyEntities(text, loaded) ==
    IF ~loaded
    THEN [raised |-> TRUE, error |-> "NER model not loaded.", entities |-> <<>>]
    ELSE [raised |-> FALSE, error |-> "", entities |-> NerEntities(text)]

-----------------------------------------------------------------------------
(* Search service *)

\* the documents of the loaded index that score for a query, best first
RankedDocuments(query) ==
    IF Lower(Strip(query)) \in {<<"h", "i">>, <<"b">>}
    THEN << [text |-> "Halo dari FILKOM", source |-> "faq"] >>
    ELSE IF query = <<"f">>
    THEN << [text |-> "Fakultas Ilmu Komputer", source |-> "profil"],
            [text |-> "Formulir KRS", source |-> "krs"],
            [text |-> "Formulir cuti", source |-> "cuti"],
            [text |-> "Fasilitas kampus", source |-> "profil"] >>
    ELSE <<>>

\* the queries on which scoring raises inside hybrid_search
FaultyQueries == { <<"l">> }

\* hybrid_search(query, top_k): the top_k best documents; [] from its except clause
HybridSearch(query, top_k) ==
    IF query \in FaultyQueries THEN <<>>
    ELSE SubSeq(RankedDocuments(query), 1,
                IF Len(RankedDocuments(query)) < top_k THEN Len(RankedDocuments(query))
                ELSE top_k)

\* SemanticSearchService.search(query, "hybrid", top_k)["results"]
SearchResults(query, top_k, loaded) == IF loaded THEN HybridSearch(query, top_k) ELSE <<>>

-----------------------------------------------------------------------------
(* Python values of an entity mapping: a str or a list of str.  A mapping   *)
(* (dict) is a sequence of <<key, value>> pairs in insertion order.         *)

PyStr(chars) == [kind |-> "str", chars |-> chars, items |-> <<>>]

PyList(items) == [kind |-> "list", chars |-> <<>>, items |-> items]

\* None, and a non-zero int given by its decimal digits
PyNone == [kind |-> "none", chars |-> <<>>, items |-> <<>>]

PyInt(digits) == [kind |-> "int", chars |-> digits, items |-> <<>>]

\* dict.get(key): <<>> when the key is absent, else <<value>>
DictGet(d, key) ==
    IF \E i \in 1..Len(d) : d[i][1] = key
    THEN Some(d[CHOOSE i \in 1..Len(d) : d[i][1] = key][2])
    ELSE None

\* what extract_key_entities returns, as Python values
RawEntities(found) == [i \in 1..Len(found) |-> <<found[i][1], PyList(found[i][2])>>]

\* str(v) of an entity value: a str is itself, a list prints as ['x', 'y']
RECURSIVE ReprItems(_)
ReprItems(items) ==
    IF items = <<>> THEN ""
    ELSE "'" \o Str(items[1]) \o "'"
         \o (IF Len(items) > 1 THEN ", " ELSE "") \o ReprItems(Tail(items))

PyToString(v) ==
    IF v.kind = "list" THEN "[" \o ReprItems(v.items) \o "]"
    ELSE IF v.kind = "none" THEN "None"
    ELSE Str(v.chars)

-----------------------------------------------------------------------------
(* Knowledge base (read only) *)

\* the knowledge base of a well-formed data file: each entry is stored under its key
\* with the alias list of its record
DefaultKb ==
    [matakuliah_data |-> << [key |-> <<"m", "l">>, alias |-> << PyStr(<<"A", "i">>) >>] >>,
     dosen_data      |-> << [key |-> <<"e", "k", "a">>, alias |-> <<>>] >>]

\* the knowledge base of a data file whose course lists a number among its aliases:
\* the loader stores the entry under its key before its alias loop raises on the
\* number and skips the rest of the entry
NumericAliasKb ==
    [DefaultKb EXCEPT !.matakuliah_data =
        << [key |-> <<"m", "l">>, alias |-> << PyStr(<<"A", "i">>), PyInt(<<"7">>) >>] >>]

\* the knowledge bases a deployment may have loaded
Kbs == {DefaultKb, NumericAliasKb}

\* kb.matakuliah_data: course key and its alias["mata_kuliah"] list
MatakuliahData == kb.matakuliah_data

\* kb.dosen_data: instructor key and its alias["nama_lengkap"] list
DosenData == kb.dosen_data

\* the keys followed by the lower-cased aliases, as the normalizer collects them
RECURSIVE AliasesOf(_)
AliasesOf(data) ==
    IF data = <<>> THEN <<>>
    ELSE [i \in 1..Len(data[1].alias) |-> Lower(data[1].alias[i].chars)]
         \o AliasesOf(Tail(data))

\* a.lower() raises AttributeError on an alias that is not a str
AliasLowerRaises(data) ==
    \E i \in 1..Len(data) : \E j \in 1..Len(data[i].alias) : data[i].alias[j].kind # "str"

AllKeys(data) == [i \in 1..Len(data) |-> data[i].key] \o AliasesOf(data)

\* get_dosen_pengampu(matkul): the record of the course, an empty mapping if unknown
DosenPengampu(matkul) ==
    IF matkul = <<"m", "l">>
    THEN << <<"dosen", <<"e", "k", "a">> >>, <<"semester", <<"3">> >>,
            <<"prodi", <<>> >> >>
    ELSE <<>>

-----------------------------------------------------------------------------
(* Fuzzy matching (rapidfuzz) *)

Max(a, b) == IF a >= b THEN a ELSE b

\* length of the longest common subsequence
RECURSIVE LCS(_, _)
LCS(a, b) ==
    IF a = <<>> \/ b = <<>> THEN 0
    ELSE IF a[1] = b[1] THEN 1 + LCS(Tail(a), Tail(b))
    ELSE Max(LCS(Tail(a), b), LCS(a, Tail(b)))

\* fuzz.ratio(a, b) = 100 * 2*LCS / (|a| + |b|), as the fraction <<numerator, denominator>>
Ratio(a, b) ==
    IF Len(a) + Len(b) = 0 THEN <<100, 1>> ELSE <<200 * LCS(a, b), Len(a) + Len(b)>>

FracLess(x, y) == x[1] * y[2] < y[1] * x[2]

\* process.extractOne(query, choices, scorer=fuzz.ratio): the first choice of highest
\* score, accepted by the caller when its score is at least FuzzyThreshold
BestMatch(query, choices) ==
    IF choices = <<>> THEN None
    ELSE LET best == CHOOSE i \in 1..Len(choices) :
                        /\ \A j \in 1..Len(choices) :
                              ~FracLess(Ratio(query, choices[i]), Ratio(query, choices[j]))
                        /\ \A j \in 1..(i - 1) :
                              FracLess(Ratio(query, choices[j]), Ratio(query, choices[i]))
         IN  Some([choice |-> choices[best], score |-> Ratio(query, choices[best])])

Accepted(match) ==
    match # None /\ ~FracLess(match[1].score, <<FuzzyThreshold, 1>>)

\* str.replace(pat, "")
RECURSIVE RemoveAll(_, _)
RemoveAll(s, pat) ==
    IF Len(s) < Len(pat) THEN s
    ELSE IF SubSeq(s, 1, Len(pat)) = pat
         THEN RemoveAll(SubSeq(s, Len(pat) + 1, Len(s)), pat)
         ELSE <<s[1]>> \o RemoveAll(Tail(s), pat)

-----------------------------------------------------------------------------
(* Entity normalizer: ChatPipeline._normalize_entities_alias *)

\* to_str: the first element of a non-empty list, else str(val or "")
ToStr(v) ==
    IF v.kind = "list" /\ v.items # <<>> THEN v.items[1]
    ELSE IF v.kind = "list" THEN <<>>
    ELSE v.chars

CleanDosen(val) ==
    Strip(RemoveAll(RemoveAll(RemoveAll(Lower(val), <<"d", "o", "s", "e", "n">>),
                              <<"p", "a", "k">>), <<"b", "u">>))

\* mutant: the value is coerced to text but left untrimmed
NormalizeOneUntrimmed(k, v) == PyStr(ToStr(v))

NormalizeOne(k, v) ==
    LET val == Strip(ToStr(v)) IN
    IF val = <<>> THEN PyStr(<<>>)
    ELSE IF k = "MATA_KULIAH"
    THEN LET best == BestMatch(Lower(val), AllKeys(MatakuliahData))
         IN  PyStr(IF Accepted(best) THEN best[1].choice ELSE val)
    ELSE IF k = "DOSEN"
    THEN LET best == BestMatch(CleanDosen(val), AllKeys(DosenData))
         IN  PyStr(IF Accepted(best) THEN best[1].choice ELSE val)
    ELSE PyStr(val)

\* the try block raises while the keys are collected, before any entity is visited
NormalizeRaises == AliasLowerRaises(MatakuliahData) \/ AliasLowerRaises(DosenData)

\* mutant: a failed normalization gives the empty mapping
NormalizeEntitiesAliasDropsOnError(intent, entities) ==
    IF NormalizeRaises THEN <<>>
    ELSE [i \in 1..Len(entities) |->
             <<entities[i][1], NormalizeOne(entities[i][1], entities[i][2])>>]

\* except Exception: return entities
NormalizeEntitiesAlias(intent, entities) ==
    IF NormalizeRaises THEN entities
    ELSE [i \in 1..Len(entities) |->
             <<entities[i][1], NormalizeOne(entities[i][1], entities[i][2])>>]

-----------------------------------------------------------------------------
(* Response template engine: TemplateService *)

\* a template is a sequence of literal texts and {PLACEHOLDER} tokens
Lit(text) == [ph |-> FALSE, text |-> text]

Ph(name) == [ph |-> TRUE, text |-> name]

\* the keys of ENTITY_KEY_MAPPING that the model's templates and entities use
EntityKeyMapping == {"MATA_KULIAH", "DOSEN", "PRODI", "SEMESTER", "HARI"}

\* kb.response_templates, as loaded from the templates file: the record registered for
\* an intent, given by the value of its "template" key (<<>> when the record has none);
\* the record of CLARIFICATION carries no template text
Templates ==
    [intent \in {"GREETING", "HELP", "GOODBYE", "CLARIFICATION", "DOSEN_PENGAMPU",
                 "PANDUAN_KRS"} |->
        CASE intent = "GREETING" -> Some(<< Lit("Halo! Ada yang bisa saya bantu?") >>)
          [] intent = "HELP" -> Some(<< Lit("Saya bisa membantu informasi akademik FILKOM.") >>)
          [] intent = "GOODBYE" -> Some(<< Lit("Sampai jumpa!") >>)
          [] intent = "CLARIFICATION" -> None
          [] intent = "DOSEN_PENGAMPU" ->
                Some(<< Lit("Dosen pengampu "), Ph("MATA_KULIAH"), Lit(" adalah "),
                        Ph("DOSEN"), Lit(" di semester "), Ph("SEMESTER"), Lit(" prodi "),
                        Ph("PRODI"), Lit(" hari "), Ph("HARI"), Lit(".") >>)
          [] intent = "PANDUAN_KRS" -> Some(<< Lit("Panduan KRS. Sumber: "), Ph("SOURCE") >>)]

NoTemplateText == "Maaf, saya belum memiliki template jawaban untuk intent ini."

\* _get_base_template: template_data.get("template") of a registered record (None when
\* the record has no such key), the default text for an intent with no record
GetBaseTemplate(intent) ==
    IF intent \in DOMAIN Templates THEN Templates[intent]
    ELSE Some(<< Lit(NoTemplateText) >>)

\* _normalize_entity_value, applied to the outcome of entities.get(key)
NormalizeEntityValue(got) ==
    IF got = None THEN <<>>
    ELSE IF got[1].kind = "list" /\ got[1].items # <<>> THEN Strip(got[1].items[1])
    ELSE IF got[1].kind = "list" THEN <<>>
    ELSE Strip(got[1].chars)

\* _normalize_alias_query for the intents the model uses
NormalizeAliasQuery(value, intent) ==
    IF value = <<>> THEN value
    ELSE IF intent = "DOSEN_PENGAMPU"
    THEN LET best == BestMatch(Strip(Lower(value)),
                               [i \in 1..Len(DosenData) |-> DosenData[i].key])
         IN  IF Accepted(best) THEN best[1].choice ELSE value
    ELSE value

\* _lookup_from_kb for the intents the model uses: the looked up text, "-" when
\* nothing is found
LookupFromKb(intent, placeholder, entities) ==
    IF intent = "DOSEN_PENGAMPU"
    THEN LET matkul == NormalizeAliasQuery(
                           NormalizeEntityValue(DictGet(entities, "MATA_KULIAH")), intent)
             field  == CASE placeholder = "DOSEN" -> "dosen"
                         [] placeholder = "SEMESTER" -> "semester"
                         [] placeholder = "PRODI" -> "prodi"
                         [] OTHER -> ""
             got    == DictGet(DosenPengampu(Lower(Strip(matkul))), field)
         IN  IF got = None THEN "-" ELSE Str(got[1])
    ELSE "-"

\* mutant: the knowledge base is asked first and the supplied entity value is used
\* only when the lookup finds nothing
ResolveKbFirst(intent, entities, placeholder) ==
    LET ent_value == Str(NormalizeEntityValue(DictGet(entities, placeholder)))
        looked_up == LookupFromKb(intent, placeholder, entities)
        final     == IF looked_up \notin {"", "-"} THEN looked_up ELSE ent_value
    IN  [value |-> IF final # "" THEN final ELSE "-", lookup |-> TRUE]

\* `final_value = ent_value or self._lookup_from_kb(...)` and `str(final_value or "-")`:
\* the text put in place of a placeholder, and whether _lookup_from_kb was called
Resolve(intent, entities, placeholder) ==
    LET ent_value == Str(NormalizeEntityValue(DictGet(entities, placeholder)))
    IN  IF ent_value # ""
        THEN [value |-> ent_value, lookup |-> FALSE]
        ELSE LET final == LookupFromKb(intent, placeholder, entities)
             IN  [value |-> IF final # "" THEN final ELSE "-", lookup |-> TRUE]

\* one token of _fill_kb_placeholders: a directly supplied entity value, else the
\* knowledge-base lookup, else "-"; a token outside ENTITY_KEY_MAPPING stays as written
FillToken(intent, entities, token) ==
    IF ~token.ph THEN token.text
    ELSE IF token.text \notin EntityKeyMapping THEN "{" \o token.text \o "}"
    ELSE Resolve(intent, entities, token.text).value

\* the placeholders for which fill_template calls _lookup_from_kb
TemplateLookups(intent, entities) ==
    LET template == GetBaseTemplate(intent) IN
    IF template = None THEN {}
    ELSE { template[1][i].text : i \in
             { j \in 1..Len(template[1]) :
                 /\ template[1][j].ph
                 /\ template[1][j].text \in EntityKeyMapping
                 /\ Resolve(intent, entities, template[1][j].text).lookup } }

\* the text that fill_template puts in place of each token of the template
TemplateParts(intent, entities) ==
    LET template == GetBaseTemplate(intent) IN
    IF template = None THEN <<>>
    ELSE [i \in 1..Len(template[1]) |-> FillToken(intent, entities, template[1][i])]

RECURSIVE FillTokens(_, _, _)
FillTokens(intent, entities, tokens) ==
    IF tokens = <<>> THEN ""
    ELSE FillToken(intent, entities, tokens[1]) \o FillTokens(intent, entities, Tail(tokens))

\* _fill_kb_placeholders without search results: on a template that is None the
\* membership test raises TypeError, the except clause returns the template as it is
FillKbPlaceholders(intent, entities, template) ==
    IF template = None THEN None
    ELSE Some(FillTokens(intent, entities, template[1]))

\* fill_template(intent, entities) as process_message calls it (no search results):
\* the returned value, <<text>> for a str and <<>> for None
FillTemplate(intent, entities) ==
    FillKbPlaceholders(intent, entities, GetBaseTemplate(intent))

-----------------------------------------------------------------------------
(* Fallback generator: ChatPipeline._generate_fallback_response *)

FallbackResponses ==
    << "Maaf, saya belum memahami pertanyaan Anda. Bisa dijelaskan lebih spesifik?",
       "Saya belum bisa menjawab pertanyaan tersebut. Coba tanyakan tentang jadwal kuliah, dosen, atau mata kuliah.",
       "Pertanyaan Anda di luar pemahaman saya saat ini. Silakan tanyakan informasi akademik FILKOM.",
       "Maaf, saya membutuhkan informasi yang lebih jelas. Coba tanyakan tentang kurikulum, jadwal, atau dosen." >>

\* int(md5(message).hexdigest(), 16) % 4 for the texts of the model
Md5Mod4(message) ==
    CASE message = <<"H", "i">> -> 0
      [] message = <<" ", "h", "i">> -> 3
      [] message \in {<<"a">>, <<"d">>, <<"g">>, <<"h">>, <<"i">>, <<"j">>, <<"n">>} -> 1
      [] message \in {<<"b">>, <<"c">>, <<"f">>, <<"k">>, <<"l">>, <<"m">>} -> 3
      [] message \in {<<"e">>, <<"p">>} -> 2
      [] OTHER -> 0

\* mutant: the text is picked by the time of the call instead of by the message
FallbackByClock(message) == FallbackResponses[(now % 4) + 1]

GenerateFallbackResponse(message) == FallbackResponses[Md5Mod4(message) + 1]

-----------------------------------------------------------------------------
(* Search-response composer: ChatPipeline._generate_search_response *)

\* ", ".join(f"{k}: {v}" for k, v in entities.items())
RECURSIVE EntityInfo(_)
EntityInfo(entities) ==
    IF entities = <<>> THEN ""
    ELSE entities[1][1] \o ": " \o PyToString(entities[1][2])
         \o (IF Len(entities) > 1 THEN ", " ELSE "") \o EntityInfo(Tail(entities))

\* top_k of the search that the composer issues
ComposerTopK == 3

\* mutant: the search is issued with the search service's default top_k of 5
GenerateSearchResponseDefaultTopK(message, entities, loaded) ==
    LET search_results == SearchResults(message, 5, loaded) IN
    IF search_results # <<>>
    THEN [response |->
             "Berdasarkan informasi yang saya temukan: " \o search_results[1].text
             \o (IF entities # <<>>
                 THEN "\n\n(Entitas terdeteksi: " \o EntityInfo(entities) \o ")"
                 ELSE ""),
          search_results |-> search_results]
    ELSE [response |-> GenerateFallbackResponse(message), search_results |-> <<>>]

GenerateSearchResponse(message, entities, loaded) ==
    LET search_results == SearchResults(message, ComposerTopK, loaded) IN
    IF search_results # <<>>
    THEN [response |->
             "Berdasarkan informasi yang saya temukan: " \o search_results[1].text
             \o (IF entities # <<>>
                 THEN "\n\n(Entitas terdeteksi: " \o EntityInfo(entities) \o ")"
                 ELSE ""),
          search_results |-> search_results]
    ELSE [response |-> GenerateFallbackResponse(message), search_results |-> <<>>]

-----------------------------------------------------------------------------
(* Numbers *)

\* round half to even of c / unit
RoundTo(c, unit) ==
    LET q == c \div unit
        r == c % unit
    IN  IF 2 * r > unit \/ (2 * r = unit /\ q % 2 = 1) THEN q + 1 ELSE q

\* mutant: the confidence is reported as a percentage
Round4AsPercent(c) == RoundTo(100 * c, ConfUnit \div 10000)

\* round(confidence, 4), in units of 1/10000
Round4(c) == RoundTo(c, ConfUnit \div 10000)

\* f"{confidence:.3f}"
Fmt3(c) ==
    LET m == RoundTo(c, ConfUnit \div 1000)
        f == m % 1000
    IN  ToString(m \div 1000) \o "."
        \o (IF f < 10 THEN "00" ELSE IF f < 100 THEN "0" ELSE "") \o ToString(f)

-----------------------------------------------------------------------------
(* Routing and response composition: the try block of process_message *)

\* mutant: the confidence thresholds are tested before the intent classes
RouteConfidenceFirst(intent, intent_confidence, search_loaded) ==
    IF intent_confidence >= IntentThreshold THEN 3
    ELSE IF intent \in TemplateIntents THEN 1
    ELSE IF intent \in LongFormIntents THEN 2
    ELSE IF intent_confidence >= FallbackThreshold /\ search_loaded THEN 4
    ELSE 5

\* mutant: the long-form intents are not singled out
RouteNoLongForm(intent, intent_confidence, search_loaded) ==
    IF intent \in TemplateIntents THEN 1
    ELSE IF intent_confidence >= IntentThreshold THEN 3
    ELSE IF intent_confidence >= FallbackThreshold /\ search_loaded THEN 4
    ELSE 5

\* mutant: the search branch is taken without asking whether the service is loaded
RouteSearchUnchecked(intent, intent_confidence, search_loaded) ==
    IF intent \in TemplateIntents THEN 1
    ELSE IF intent \in LongFormIntents THEN 2
    ELSE IF intent_confidence >= IntentThreshold THEN 3
    ELSE IF intent_confidence >= FallbackThreshold THEN 4
    ELSE 5

\* mutant: the intent threshold is exclusive
RouteStrictThreshold(intent, intent_confidence, search_loaded) ==
    IF intent \in TemplateIntents THEN 1
    ELSE IF intent \in LongFormIntents THEN 2
    ELSE IF intent_confidence > IntentThreshold THEN 3
    ELSE IF intent_confidence >= FallbackThreshold /\ search_loaded THEN 4
    ELSE 5

\* the branch of the if/elif chain that runs, 1..5
Route(intent, intent_confidence, search_loaded) ==
    IF intent \in TemplateIntents THEN 1
    ELSE IF intent \in LongFormIntents THEN 2
    ELSE IF intent_confidence >= IntentThreshold THEN 3
    ELSE IF intent_confidence >= FallbackThreshold /\ search_loaded THEN 4
    ELSE 5

\* the component that a branch hands the message to
Strategy(branch) ==
    CASE branch \in {1, 3} -> "template"
      [] branch \in {2, 4} -> "search"
      [] OTHER -> "fallback"

\* response, search_results and fallback_reason of a branch; the response is <<text>>,
\* or <<>> where the template engine handed back None
Respond(branch, message, intent, intent_confidence, entities, search_loaded) ==
    CASE branch \in {1, 3} ->
            [response |-> FillTemplate(intent, entities),
             search_results |-> None, fallback_reason |-> None]
      [] branch = 2 ->
            [response |->
                 Some(GenerateSearchResponse(message, entities, search_loaded).response),
             search_results |->
                 Some(GenerateSearchResponse(message, entities, search_loaded).search_results),
             fallback_reason |->
                 Some("Intent panjang (" \o intent \o "), langsung semantic search")]
      [] branch = 4 ->
            [response |->
                 Some(GenerateSearchResponse(message, entities, search_loaded).response),
             search_results |->
                 Some(GenerateSearchResponse(message, entities, search_loaded).search_results),
             fallback_reason |->
                 Some("Low intent confidence (" \o Fmt3(intent_confidence)
                      \o "), using semantic search")]
      [] OTHER ->
            [response |-> Some(GenerateFallbackResponse(message)),
             search_results |-> None,
             fallback_reason |->
                 Some("Very low intent confidence (" \o Fmt3(intent_confidence) \o ")")]

ErrorResponse == "Maaf, terjadi kesalahan dalam memproses pertanyaan Anda. Silakan coba lagi."

\* mutant: the except branch answers with the fallback text under a normal intent
ErrorResultAsFallback(error) ==
    [response |-> Some(FallbackResponses[1]), intent |-> "OUT_OF_SCOPE", entities |-> <<>>,
     confidence |-> 0, search_results |-> None, template_used |-> None,
     fallback_reason |-> Some(error), processing_time |-> None, cached |-> FALSE]

\* the PipelineResult of the except branch
ErrorResult(error) ==
    [response |-> Some(ErrorResponse), intent |-> "ERROR", entities |-> <<>>, confidence |-> 0,
     search_results |-> None, template_used |-> None, fallback_reason |-> Some(error),
     processing_time |-> None, cached |-> FALSE]

\* Steps 2-5 of a cache miss: what is computed, or the exception that ends the try
\* block; `called` lists the services that were called
RunPipeline(message, intent_loaded, ner_loaded, search_loaded, model) ==
    LET predicted == PredictIntent(message, intent_loaded, model)
        extracted == ExtractKeyEntities(message, ner_loaded)
    IN  IF predicted.raised
        THEN [raised |-> TRUE, error |-> predicted.error, called |-> {"intent"},
              branch |-> 0, intent |-> "", intent_confidence |-> 0, entities |-> <<>>,
              response |-> None, search_results |-> None, fallback_reason |-> None]
        ELSE IF extracted.raised
        THEN [raised |-> TRUE, error |-> extracted.error, called |-> {"intent", "ner"},
              branch |-> 0, intent |-> "", intent_confidence |-> 0, entities |-> <<>>,
              response |-> None, search_results |-> None, fallback_reason |-> None]
        ELSE LET intent   == predicted.intent
                 conf     == predicted.confidence
                 entities == NormalizeEntitiesAlias(intent, RawEntities(extracted.entities))
                 branch   == Route(intent, conf, search_loaded)
                 answer   == Respond(branch, message, intent, conf, entities, search_loaded)
             IN  [raised |-> FALSE, error |-> "",
                  called |-> {"intent", "ner"}
                             \cup (IF Strategy(branch) = "search" THEN {"search"} ELSE {}),
                  branch |-> branch, intent |-> intent, intent_confidence |-> conf,
                  entities |-> entities, response |-> answer.response,
                  search_results |-> answer.search_results,
                  fallback_reason |-> answer.fallback_reason]

-----------------------------------------------------------------------------
(* The pipeline's registries *)

\* f"{user_id}_{session_id}"
ContextKey(user_id, session_id) == user_id \o <<"_">> \o session_id

\* f"{message.strip().lower()}::{user_id}::{session_id}"
CacheKey(message, user_id, session_id) ==
    Lower(Strip(message)) \o <<":", ":">> \o user_id \o <<":", ":">> \o session_id

\* mutant: the emptiness test is forgotten
InvalidInputTypeOnly(message) == message.kind # "str"

\* `not message or not isinstance(message, str)`
InvalidInput(message) == message.kind # "str" \/ message.chars = <<>>

\* a mapping with one key set
Put(map, key, value) ==
    [k \in DOMAIN map \cup {key} |-> IF k = key THEN value ELSE map[k]]

\* mutant: removing an absent key empties the mapping
DropOrClearAll(map, key) ==
    [k \in (IF key \in DOMAIN map THEN DOMAIN map \ {key} ELSE {}) |-> map[k]]

\* a mapping without one key
Drop(map, key) == [k \in DOMAIN map \ {key} |-> map[k]]

\* a fresh ChatContext (created_at, which nothing reads, is left out)
NewContext(user_id, session_id) ==
    [user_id |-> user_id, session_id |-> session_id, conversation_history |-> <<>>,
     last_intent |-> None, last_entities |-> None]

\* the registry after get_or_create_context
GetOrCreateContext(ctxs, user_id, session_id) ==
    IF ContextKey(user_id, session_id) \in DOMAIN ctxs THEN ctxs
    ELSE Put(ctxs, ContextKey(user_id, session_id), NewContext(user_id, session_id))

\* mutant: the first turns are kept instead of the last ones
LastTurnsKeepsOldest(history) ==
    IF Len(history) > HistoryLimit THEN SubSeq(history, 1, HistoryLimit) ELSE history

\* history[-10:]
LastTurns(history) ==
    IF Len(history) > HistoryLimit
    THEN SubSeq(history, Len(history) - HistoryLimit + 1, Len(history))
    ELSE history

\* the turn record that _update_context appends
TurnRecord(timestamp, message, intent, entities, response) ==
    [timestamp |-> timestamp, user_message |-> message, bot_response |-> response,
     intent |-> intent, entities |-> entities]

\* mutant: the turn is appended but the history is never truncated
UpdateContextNoTruncate(context, timestamp, message, intent, entities, response) ==
    [context EXCEPT
        !.conversation_history =
            Append(@, TurnRecord(timestamp, message, intent, entities, response)),
        !.last_intent = Some(intent),
        !.last_entities = Some(entities)]

\* mutant: last_intent and last_entities are set but the turn is not appended
UpdateContextNoAppend(context, timestamp, message, intent, entities, response) ==
    [context EXCEPT !.last_intent = Some(intent), !.last_entities = Some(entities)]

\* _update_context on one ChatContext
UpdateContext(context, timestamp, message, intent, entities, response) ==
    [context EXCEPT
        !.conversation_history =
            LastTurns(Append(@, TurnRecord(timestamp, message, intent, entities, response))),
        !.last_intent = Some(intent),
        !.last_entities = Some(entities)]

\* get_conversation_history
GetConversationHistory(ctxs, user_id, session_id) ==
    IF ContextKey(user_id, session_id) \in DOMAIN ctxs
    THEN ctxs[ContextKey(user_id, session_id)].conversation_history
    ELSE <<>>

\* template_used of a fresh result
TemplateUsed(intent) == IF intent \in DOMAIN Templates THEN Some(intent) ELSE None

\* mutant: the duration is refreshed but the flag is not set
MarkCachedNoFlag(result, elapsed) == [result EXCEPT !.processing_time = Some(elapsed)]

\* mutant: a hit also resets the confidence of the stored result
MarkCachedResetsConfidence(result, elapsed) ==
    [result EXCEPT !.cached = TRUE, !.processing_time = Some(elapsed), !.confidence = 0]

\* the stored result as a cache hit hands it out: cached = True, new processing_time
MarkCached(result, elapsed) ==
    [result EXCEPT !.cached = TRUE, !.processing_time = Some(elapsed)]

\* the PipelineResult built after a successful computation
FreshResult(out, elapsed) ==
    [response |-> out.response, intent |-> out.intent, entities |-> out.entities,
     confidence |-> Round4(out.intent_confidence),
     search_results |-> out.search_results,
     template_used |-> TemplateUsed(out.intent),
     fallback_reason |-> out.fallback_reason,
     processing_time |-> Some(elapsed), cached |-> FALSE]

\* mutant: the except branch stores the ERROR result under the cache key
CacheAfterErrorStores(entries, cache_key, result) == Put(entries, cache_key, result)

\* the cache when the except branch returns: line 147 was not reached, nothing is stored
CacheAfterError(entries, cache_key, result) == entries

\* the PipelineResult object that the miss call for a cache key returned, as its
\* caller sees it: line 147 stores the object itself, not a copy, and line 148 returns
\* it, so the caller's reference and the cache entry are one object
ReturnedByMiss(entries, cache_key) == entries[cache_key]

\* the four fields that the API promises to repeat
Core(result) ==
    <<result.response, result.intent, result.entities, result.confidence>>

-----------------------------------------------------------------------------
(* State machine *)

\* the record of an API call: its arguments, the path it took (invalid, hit, miss,
\* error), whether it raised to the caller, the exception raised inside or out of the
\* try block, the result as returned, the services called, the routing branch with the
\* inputs that chose it, the history returned, and, when the call before it was the
\* same operation with the same arguments (repeat), that call's result (prior)
NoCall ==
    [op |-> "none", message |-> MsgEmpty, user_id |-> <<>>, session_id |-> <<>>,
     path |-> "none", raised |-> FALSE, exception |-> None, result |-> None,
     called |-> {}, branch |-> 0, intent_confidence |-> 0, search_loaded |-> FALSE,
     history |-> <<>>, repeat |-> FALSE, prior |-> None]

\* ChatPipeline.__init__: empty registries
InitPipeline ==
    /\ contexts = <<>>
    /\ cache = <<>>
    /\ now = 0
    /\ appended = <<>>
    /\ served = <<>>
    /\ computed = {}
    /\ last = NoCall
    /\ threads = <<>>
    /\ heap = <<>>

\* the pipeline of a process whose services have not been loaded yet
Init ==
    /\ InitPipeline
    /\ intentLoaded = FALSE
    /\ nerLoaded = FALSE
    /\ searchLoaded = FALSE
    /\ intentModel = DefaultIntentModel
    /\ kb = DefaultKb

Call(op, message, user_id, session_id) ==
    LET repeat == /\ last.op = op
                  /\ last.message = message
                  /\ last.user_id = user_id
                  /\ last.session_id = session_id
    IN  [NoCall EXCEPT !.op = op, !.message = message, !.user_id = user_id,
                       !.session_id = session_id, !.repeat = repeat,
                       !.prior = IF repeat THEN last.result ELSE None]

\* process_message(message, user_id, session_id); processing_time is the time that
\* passed on the logical clock between entry and return
ProcessMessage(message, user_id, session_id) ==
    LET call == Call("process_message", message, user_id, session_id) IN
    IF InvalidInput(message)
    THEN \* raise ChatbotException("Invalid input text.")
         /\ last' = [call EXCEPT !.path = "invalid", !.raised = TRUE,
                                 !.exception = Some("Invalid input text.")]
         /\ UNCHANGED <<contexts, cache, now, appended, computed>>
    ELSE
    LET text       == message.chars
        start_time == now
        ckey       == ContextKey(user_id, session_id)
        created    == GetOrCreateContext(contexts, user_id, session_id)
        log        == IF ckey \in DOMAIN contexts THEN appended ELSE Put(appended, ckey, <<>>)
        cache_key  == CacheKey(text, user_id, session_id)
    IN
    IF cache_key \in DOMAIN cache
    THEN \* cache hit: the stored object is flagged and returned
         LET cached_result == MarkCached(cache[cache_key], now - start_time)
         IN  /\ cache' = Put(cache, cache_key, cached_result)
             /\ contexts' = created
             /\ appended' = log
             /\ last' = [call EXCEPT !.path = "hit", !.result = Some(cached_result)]
             /\ UNCHANGED <<now, computed>>
    ELSE
    LET out == RunPipeline(text, intentLoaded, nerLoaded, searchLoaded, intentModel) IN
    IF out.raised
    THEN \* except Exception: the ERROR result, nothing stored
         /\ contexts' = created
         /\ appended' = log
         /\ cache' = CacheAfterError(cache, cache_key, ErrorResult(out.error))
         /\ last' = [call EXCEPT !.path = "error", !.exception = Some(out.error),
                                 !.result = Some(ErrorResult(out.error)),
                                 !.called = out.called]
         /\ UNCHANGED <<now, computed>>
    ELSE
    LET result == FreshResult(out, (now + 1) - start_time)
    IN  /\ contexts' = Put(created, ckey,
                           UpdateContext(created[ckey], now + 1, text, out.intent,
                                         out.entities, out.response))
        /\ appended' = Put(log, ckey,
                           Append(log[ckey],
                                  TurnRecord(now + 1, text, out.intent, out.entities,
                                             out.response)))
        /\ now' = now + 1
        /\ cache' = Put(cache, cache_key, result)
        /\ computed' = computed \cup {[message |-> text, user_id |-> user_id,
                                       session_id |-> session_id, core |-> Core(result),
                                       branch |-> out.branch]}
        /\ last' = [call EXCEPT !.path = "miss", !.result = Some(result),
                                !.called = out.called, !.branch = out.branch,
                                !.intent_confidence = out.intent_confidence,
                                !.search_loaded = searchLoaded]

\* mutant: clearing a context also empties the result cache
ClearContextPurgesCache(user_id, session_id) ==
    /\ contexts' = Drop(contexts, ContextKey(user_id, session_id))
    /\ appended' = Drop(appended, ContextKey(user_id, session_id))
    /\ cache' = <<>>
    /\ last' = Call("clear_context", MsgEmpty, user_id, session_id)
    /\ UNCHANGED <<now, computed>>

\* clear_context(user_id, session_id)
ClearContext(user_id, session_id) ==
    /\ contexts' = Drop(contexts, ContextKey(user_id, session_id))
    /\ appended' = Drop(appended, ContextKey(user_id, session_id))
    /\ last' = Call("clear_context", MsgEmpty, user_id, session_id)
    /\ UNCHANGED <<cache, now, computed>>

\* mutant: the lookup registers the empty context it falls back to
ReadHistoryCreates(user_id, session_id) ==
    /\ last' = [Call("get_conversation_history", MsgEmpty, user_id, session_id)
                   EXCEPT !.history = GetConversationHistory(contexts, user_id, session_id)]
    /\ contexts' = GetOrCreateContext(contexts, user_id, session_id)
    /\ appended' = IF ContextKey(user_id, session_id) \in DOMAIN contexts THEN appended
                   ELSE Put(appended, ContextKey(user_id, session_id), <<>>)
    /\ UNCHANGED <<cache, now, computed>>

\* get_conversation_history(user_id, session_id)
ReadHistory(user_id, session_id) ==
    /\ last' = [Call("get_conversation_history", MsgEmpty, user_id, session_id)
                   EXCEPT !.history = GetConversationHistory(contexts, user_id, session_id)]
    /\ UNCHANGED <<contexts, cache, now, appended, computed>>

\* IntentClassificationService.load_model: is_loaded becomes True, or False on failure
LoadIntentModel(ok) ==
    /\ intentLoaded' = ok
    /\ UNCHANGED <<contexts, cache, nerLoaded, searchLoaded, intentModel, kb, now, appended,
                   served, computed, last, threads, heap>>

\* NERService.load_model: is_loaded becomes True on success and is left alone otherwise
LoadNerModel(ok) ==
    /\ nerLoaded' = (nerLoaded \/ ok)
    /\ UNCHANGED <<contexts, cache, intentLoaded, searchLoaded, intentModel, kb, now, appended,
                   served, computed, last, threads, heap>>

\* SemanticSearchService.load_models: is_loaded becomes True, or False on an exception
LoadSearchModels(ok) ==
    /\ searchLoaded' = ok
    /\ UNCHANGED <<contexts, cache, intentLoaded, nerLoaded, intentModel, kb, now, appended,
                   served, computed, last, threads, heap>>

services == <<intentLoaded, nerLoaded, searchLoaded, intentModel, kb>>

\* two users call the API while the services are loaded and reloaded
Next ==
    \/ \E m \in Messages, p \in IdPairs :
          ProcessMessage(m, p[1], p[2]) /\ UNCHANGED <<services, served, threads, heap>>
    \/ \E p \in IdPairs :
          ClearContext(p[1], p[2]) /\ UNCHANGED <<services, served, threads, heap>>
    \/ \E p \in IdPairs :
          ReadHistory(p[1], p[2]) /\ UNCHANGED <<services, served, threads, heap>>
    \/ \E ok \in BOOLEAN : LoadIntentModel(ok)
    \/ \E ok \in BOOLEAN : LoadNerModel(ok)
    \/ \E ok \in BOOLEAN : LoadSearchModels(ok)

Spec == Init /\ [][Next]_vars

-----------------------------------------------------------------------------
(* Routing under every classifier answer *)

Confidences == {0, 22000, 49999, 50000, 84999, 85000, 99000, 100000}

\* the deployment's classifier with any label and confidence for the text "hi"
RouteModels ==
    { [t \in ModelTexts |-> IF t = <<"h", "i">> THEN p ELSE DefaultIntentModel[t]] :
        p \in {Prediction(i, c) : i \in IntentLabels, c \in Confidences} }

RouteUser == <<"a">>

RouteSession == <<"c">>

InitRoute ==
    /\ InitPipeline
    /\ intentLoaded = FALSE
    /\ nerLoaded = FALSE
    /\ searchLoaded = FALSE
    /\ intentModel \in RouteModels
    /\ kb \in Kbs

\* one user sends the message while the services are loaded and reloaded
NextRoute ==
    \/ \E m \in ValidMessages :
          ProcessMessage(m, RouteUser, RouteSession) /\ UNCHANGED <<services, served, threads, heap>>
    \/ ClearContext(RouteUser, RouteSession) /\ UNCHANGED <<services, served, threads, heap>>
    \/ \E ok \in BOOLEAN : LoadIntentModel(ok)
    \/ \E ok \in BOOLEAN : LoadNerModel(ok)
    \/ \E ok \in BOOLEAN : LoadSearchModels(ok)

SpecRoute == InitRoute /\ [][NextRoute]_vars

-----------------------------------------------------------------------------
(* Ids that contain the key separators *)

\* the pipeline of a process whose services were all loaded at startup
InitLoaded ==
    /\ InitPipeline
    /\ intentLoaded = TRUE
    /\ nerLoaded = TRUE
    /\ searchLoaded = TRUE
    /\ intentModel = DefaultIntentModel
    /\ kb = DefaultKb

NextKeys ==
    \/ \E p \in SeparatorIdPairs :
          ProcessMessage(MsgHi, p[1], p[2]) /\ UNCHANGED <<services, served, threads, heap>>
    \/ \E p \in SeparatorIdPairs :
          ClearContext(p[1], p[2]) /\ UNCHANGED <<services, served, threads, heap>>
    \/ \E p \in SeparatorIdPairs :
          ReadHistory(p[1], p[2]) /\ UNCHANGED <<services, served, threads, heap>>

SpecKeys == InitLoaded /\ [][NextKeys]_vars

-----------------------------------------------------------------------------
(* A long conversation of one user *)

HistUser == <<"a">>

HistSession == <<"c">>

Min(a, b) == IF a <= b THEN a ELSE b

\* the number of process_message calls of a pair so far, counted up to HistoryLimit
Served(user_id, session_id) ==
    IF <<user_id, session_id>> \in DOMAIN served THEN served[<<user_id, session_id>>] ELSE 0

\* the messages of the script that have been answered
Answered == {i \in 1..ScriptLength :
                CacheKey(Script[i].chars, HistUser, HistSession) \in DOMAIN cache}

\* the client sends the messages of its script in order, and may send the first
\* message again at any time
NextHist ==
    \/ \E i \in 1..ScriptLength :
          /\ i = 1 \/ (i \notin Answered /\ \A j \in 1..(i - 1) : j \in Answered)
          /\ ProcessMessage(Script[i], HistUser, HistSession)
          /\ served' = Put(served, <<HistUser, HistSession>>,
                           Min(HistoryLimit, Served(HistUser, HistSession) + 1))
          /\ UNCHANGED <<services, threads, heap>>
    \/ ClearContext(HistUser, HistSession) /\ UNCHANGED <<services, served, threads, heap>>
    \/ ReadHistory(HistUser, HistSession) /\ UNCHANGED <<services, served, threads, heap>>

SpecHist == InitLoaded /\ [][NextHist]_vars

-----------------------------------------------------------------------------
(* The search-response composer on its own *)

SearchMessages ==
    { <<"H", "i">>, <<" ", "h", "i">>, <<"b">>, <<"f">>, <<"h">>, <<"l">> }

\* entity mappings as the composer receives them: normalized to strings, or as the
\* entity service returned them when the normalizer gave up
ComposerEntities ==
    { <<>>,
      << <<"HARI", PyStr(<<"h", "i">>)>> >>,
      << <<"MATA_KULIAH", PyStr(<<"m", "l">>)>>, <<"HARI", PyStr(<<"h", "i">>)>> >>,
      << <<"HARI", PyList(<< <<"h", "i">>, <<"j">> >>)>> >>,
      << <<"DOSEN", PyStr(<<>>)>> >> }

\* _generate_search_response(message, entities)
ComposeSearch(message, entities) ==
    LET out == GenerateSearchResponse(message, entities, searchLoaded)
    IN  /\ last' = [op |-> "_generate_search_response", message |-> message,
                    entities |-> entities, search_loaded |-> searchLoaded,
                    response |-> out.response, search_results |-> out.search_results]
        /\ UNCHANGED <<contexts, cache, now, appended, computed>>

NextSearch ==
    \/ \E m \in SearchMessages, e \in ComposerEntities :
          ComposeSearch(m, e) /\ UNCHANGED <<services, served, threads, heap>>
    \/ \E ok \in BOOLEAN : LoadSearchModels(ok)

SpecSearch == InitLoaded /\ [][NextSearch]_vars

-----------------------------------------------------------------------------
(* The template engine on its own *)

EntityValues ==
    { PyStr(<<"m", "l">>), PyList(<< <<" ", "m", "l">> >>), PyStr(<<"c">>), PyStr(<<>>),
      PyList(<<>>) }

\* entity mappings handed to fill_template: none, one key, or a course with a day
TemplateEntities ==
    { <<>> }
    \cup { << <<k, v>> >> : k \in {"MATA_KULIAH", "DOSEN", "SEMESTER", "HARI"},
                           v \in EntityValues }
    \cup { << <<"MATA_KULIAH", PyStr(<<"m", "l">>)>>, <<"HARI", PyList(<< <<"h", "i">> >>)>> >> }

\* fill_template(intent, entities)
FillTemplateCall(intent, entities) ==
    /\ last' = [op |-> "fill_template", intent |-> intent, entities |-> entities,
                raised |-> FALSE, returned |-> FillTemplate(intent, entities),
                lookups |-> TemplateLookups(intent, entities),
                parts |-> TemplateParts(intent, entities)]
    /\ UNCHANGED <<contexts, cache, now, appended, computed>>

NextTemplate ==
    \E intent \in IntentLabels, e \in TemplateEntities :
        FillTemplateCall(intent, e) /\ UNCHANGED <<services, served, threads, heap>>

SpecTemplate == InitLoaded /\ [][NextTemplate]_vars

-----------------------------------------------------------------------------
(* The entity normalizer applied to bounded entity mappings, over a well-    *)
(* formed knowledge base and over one whose alias list makes it raise.       *)

\* the values an entity may carry into the normalizer
NormalizerValues ==
    { PyNone, PyList(<<>>), PyStr(<<>>),
      PyList(<< <<" ", "A", "i", " ">> >>),
      PyList(<< <<"h", "i", " ">>, <<"m", "l">> >>),
      PyStr(<<" ", "p", "a", "k", " ", "e", "k", "a">>),
      PyStr(<<" ", " ">>) }

NormalizerKeys == {"MATA_KULIAH", "DOSEN", "HARI"}

\* the mappings of one or two entity types
NormalizerEntities ==
    { << <<k, v>> >> : k \in NormalizerKeys, v \in NormalizerValues }
    \cup { << <<"HARI", v>>, <<k, w>> >> :
              k \in {"MATA_KULIAH", "DOSEN"}, v \in NormalizerValues, w \in NormalizerValues }

InitNormalize ==
    /\ InitPipeline
    /\ intentLoaded = TRUE
    /\ nerLoaded = TRUE
    /\ searchLoaded = TRUE
    /\ intentModel = DefaultIntentModel
    /\ kb \in Kbs

\* one call of _normalize_entities_alias(intent, entities)
NormalizeCall(intent, entities) ==
    /\ last' = [op |-> "normalize_entities_alias", intent |-> intent, entities |-> entities,
                raised |-> NormalizeRaises,
                returned |-> NormalizeEntitiesAlias(intent, entities)]
    /\ UNCHANGED <<contexts, cache, now, appended, computed>>

NextNormalize ==
    \E intent \in {"DOSEN_PENGAMPU"}, e \in NormalizerEntities :
        NormalizeCall(intent, e) /\ UNCHANGED <<services, served, threads, heap>>

SpecNormalize == InitNormalize /\ [][NextNormalize]_vars

-----------------------------------------------------------------------------
(* Two clients send one message, clear their context and read their history *)
(* while the services are loaded and reloaded; `served` records the pairs    *)
(* for which the message has been processed.                                *)

NextClear ==
    \/ \E p \in IdPairs :
          /\ ProcessMessage(MsgHi, p[1], p[2])
          /\ served' = Put(served, <<p[1], p[2]>>, 1)
          /\ UNCHANGED <<services, threads, heap>>
    \/ \E p \in IdPairs :
          ClearContext(p[1], p[2]) /\ UNCHANGED <<services, served, threads, heap>>
    \/ \E p \in IdPairs :
          ReadHistory(p[1], p[2]) /\ UNCHANGED <<services, served, threads, heap>>
    \/ \E ok \in BOOLEAN : LoadIntentModel(ok)
    \/ \E ok \in BOOLEAN : LoadNerModel(ok)

SpecClear == Init /\ [][NextClear]_vars

-----------------------------------------------------------------------------
(* One client calls the API of a pipeline whose services were loaded at      *)
(* startup, with or without the semantic search, and are not reloaded.       *)

\* "Hi" and " hi" have one cache key, "k" has another
VariantMessages == {MsgHi, MsgHiPadded, StrMsg(<<"k">>)}

InitStable ==
    /\ InitPipeline
    /\ intentLoaded = TRUE
    /\ nerLoaded = TRUE
    /\ searchLoaded \in BOOLEAN
    /\ intentModel = DefaultIntentModel
    /\ kb = DefaultKb

NextStable ==
    \/ \E m \in VariantMessages :
          ProcessMessage(m, RouteUser, RouteSession)
              /\ UNCHANGED <<services, served, threads, heap>>
    \/ ClearContext(RouteUser, RouteSession) /\ UNCHANGED <<services, served, threads, heap>>
    \/ ReadHistory(RouteUser, RouteSession) /\ UNCHANGED <<services, served, threads, heap>>

SpecStable == InitStable /\ [][NextStable]_vars

-----------------------------------------------------------------------------
(* Threads inside process_message at the same time.  Nothing in the pipeline *)
(* locks its registries, so a call is a sequence of steps, one per read or   *)
(* write of shared state, and the steps of different threads interleave.     *)
(* The registry maps a context key to a reference into the heap.             *)

NumThreads == 2

Threads == 1..NumThreads

\* the number of calls one thread makes
MaxCalls == 1

ConcUser == <<"a">>

ConcSession == <<"c">>

ConcKey == ContextKey(ConcUser, ConcSession)

\* the texts the threads send
ConcMessages == VariantMessages

\* a thread outside process_message; result, path and turn describe its last call
IdleFrame ==
    [pc |-> "idle", message |-> <<>>, start_time |-> 0, context |-> 0, out |-> None,
     sliced |-> <<>>, result |-> None, path |-> "none", turn |-> None, calls |-> 0]

\* what the n-th scripted message computes when it is processed on its own
ScriptOut(n, search_loaded) ==
    RunPipeline(<<Alphabet[n]>>, TRUE, TRUE, search_loaded, DefaultIntentModel)

\* the context of a client after its first n scripted messages, sent one at a time
RECURSIVE ScriptContext(_, _)
ScriptContext(n, search_loaded) ==
    IF n = 0 THEN NewContext(ConcUser, ConcSession)
    ELSE UpdateContext(ScriptContext(n - 1, search_loaded), n, <<Alphabet[n]>>,
                       ScriptOut(n, search_loaded).intent,
                       ScriptOut(n, search_loaded).entities,
                       ScriptOut(n, search_loaded).response)

\* the cache after those n messages
RECURSIVE ScriptCache(_, _)
ScriptCache(n, search_loaded) ==
    IF n = 0 THEN <<>>
    ELSE Put(ScriptCache(n - 1, search_loaded),
             CacheKey(<<Alphabet[n]>>, ConcUser, ConcSession),
             FreshResult(ScriptOut(n, search_loaded), 1))

\* a pipeline with its services loaded whose client is new or has HistoryLimit turns
InitConcurrent ==
    /\ intentLoaded = TRUE
    /\ nerLoaded = TRUE
    /\ searchLoaded \in BOOLEAN
    /\ intentModel = DefaultIntentModel
    /\ kb = DefaultKb
    /\ \E n \in {0, HistoryLimit} :
          /\ contexts = IF n = 0 THEN <<>> ELSE Put(<<>>, ConcKey, 1)
          /\ heap = IF n = 0 THEN <<>> ELSE <<ScriptContext(n, searchLoaded)>>
          /\ cache = ScriptCache(n, searchLoaded)
          /\ now = n
          /\ appended = IF n = 0 THEN <<>>
                        ELSE Put(<<>>, ConcKey,
                                 ScriptContext(n, searchLoaded).conversation_history)
    /\ served = <<>>
    /\ computed = {}
    /\ last = NoCall
    /\ threads = [t \in Threads |-> IdleFrame]

Goto(t, pc) == threads' = [threads EXCEPT ![t].pc = pc]

ThreadCacheKey(t) == CacheKey(threads[t].message, ConcUser, ConcSession)

\* lines 88-91: the call is entered and its input validated
Enter(t, message) ==
    /\ threads[t].pc = "idle"
    /\ threads[t].calls < MaxCalls
    /\ ~InvalidInput(message)
    /\ threads' = [threads EXCEPT ![t] = [IdleFrame EXCEPT !.pc = "ctx_check",
                                                           !.message = message.chars,
                                                           !.start_time = now,
                                                           !.calls = threads[t].calls + 1]]
    /\ UNCHANGED <<contexts, cache, now, appended, heap>>

\* line 73: if context_key not in self.contexts
ContextCheck(t) ==
    /\ threads[t].pc = "ctx_check"
    /\ Goto(t, IF ConcKey \in DOMAIN contexts THEN "ctx_return" ELSE "ctx_create")
    /\ UNCHANGED <<contexts, cache, now, appended, heap>>

\* lines 74-78: self.contexts[context_key] = ChatContext(...)
ContextCreate(t) ==
    /\ threads[t].pc = "ctx_create"
    /\ heap' = Append(heap, NewContext(ConcUser, ConcSession))
    /\ contexts' = Put(contexts, ConcKey, Len(heap) + 1)
    /\ Goto(t, "ctx_return")
    /\ UNCHANGED <<cache, now, appended>>

\* line 79 and line 93: context = self.contexts[context_key]
ContextReturn(t) ==
    /\ threads[t].pc = "ctx_return"
    /\ threads' = [threads EXCEPT ![t].pc = "cache_check", ![t].context = contexts[ConcKey]]
    /\ UNCHANGED <<contexts, cache, now, appended, heap>>

\* lines 95-96: if cache_key in self._cache
CacheCheck(t) ==
    /\ threads[t].pc = "cache_check"
    /\ Goto(t, IF ThreadCacheKey(t) \in DOMAIN cache THEN "hit" ELSE "compute")
    /\ UNCHANGED <<contexts, cache, now, appended, heap>>

\* lines 98-101: the stored object is flagged and returned
CacheHit(t) ==
    /\ threads[t].pc = "hit"
    /\ LET cached_result == MarkCached(cache[ThreadCacheKey(t)], now - threads[t].start_time)
       IN  /\ cache' = Put(cache, ThreadCacheKey(t), cached_result)
           /\ threads' = [threads EXCEPT ![t].pc = "idle", ![t].path = "hit",
                                         ![t].result = Some(cached_result)]
    /\ UNCHANGED <<contexts, now, appended, heap>>

\* lines 105-130: the services are called and the response produced; an exception
\* ends the call with the ERROR result
Compute(t) ==
    /\ threads[t].pc = "compute"
    /\ LET out == RunPipeline(threads[t].message, intentLoaded, nerLoaded, searchLoaded,
                              intentModel)
       IN  threads' = IF out.raised
                      THEN [threads EXCEPT ![t].pc = "idle", ![t].path = "error",
                                           ![t].result = Some(ErrorResult(out.error))]
                      ELSE [threads EXCEPT ![t].pc = "append", ![t].out = Some(out)]
    /\ UNCHANGED <<contexts, cache, now, appended, heap>>

\* lines 248-254: context.conversation_history.append({...})
AppendTurn(t) ==
    /\ threads[t].pc = "append"
    /\ LET out  == threads[t].out[1]
           turn == TurnRecord(now + 1, threads[t].message, out.intent, out.entities,
                              out.response)
       IN  /\ heap' = [heap EXCEPT ![threads[t].context].conversation_history =
                                       Append(@, turn)]
           /\ appended' = Put(appended, ConcKey,
                              Append(IF ConcKey \in DOMAIN appended THEN appended[ConcKey]
                                     ELSE <<>>, turn))
           /\ threads' = [threads EXCEPT ![t].pc = "set_last", ![t].turn = Some(turn)]
    /\ now' = now + 1
    /\ UNCHANGED <<contexts, cache>>

\* lines 255-257: last_intent and last_entities are set and the length is tested
SetLast(t) ==
    /\ threads[t].pc = "set_last"
    /\ heap' = [heap EXCEPT ![threads[t].context].last_intent = Some(threads[t].out[1].intent),
                            ![threads[t].context].last_entities =
                                Some(threads[t].out[1].entities)]
    /\ Goto(t, IF Len(heap[threads[t].context].conversation_history) > HistoryLimit
               THEN "slice" ELSE "cache_write")
    /\ UNCHANGED <<contexts, cache, now, appended>>

\* line 258, right-hand side: context.conversation_history[-10:] builds a new list
Slice(t) ==
    /\ threads[t].pc = "slice"
    /\ threads' = [threads EXCEPT
                      ![t].pc = "assign",
                      ![t].sliced = LastTurns(heap[threads[t].context].conversation_history)]
    /\ UNCHANGED <<contexts, cache, now, appended, heap>>

\* line 258, assignment: context.conversation_history = <the new list>
Assign(t) ==
    /\ threads[t].pc = "assign"
    /\ heap' = [heap EXCEPT ![threads[t].context].conversation_history = threads[t].sliced]
    /\ Goto(t, "cache_write")
    /\ UNCHANGED <<contexts, cache, now, appended>>

\* lines 134-148: the result is built, stored under the cache key and returned
CacheWrite(t) ==
    /\ threads[t].pc = "cache_write"
    /\ LET result == FreshResult(threads[t].out[1], now - threads[t].start_time)
       IN  /\ cache' = Put(cache, ThreadCacheKey(t), result)
           /\ threads' = [threads EXCEPT ![t].pc = "idle", ![t].path = "miss",
                                         ![t].result = Some(result)]
    /\ UNCHANGED <<contexts, now, appended, heap>>

frozen == <<services, served, computed, last>>

NextConcurrent ==
    \/ \E t \in Threads, m \in ConcMessages : Enter(t, m) /\ UNCHANGED frozen
    \/ \E t \in Threads : ContextCheck(t) /\ UNCHANGED frozen
    \/ \E t \in Threads : ContextCreate(t) /\ UNCHANGED frozen
    \/ \E t \in Threads : ContextReturn(t) /\ UNCHANGED frozen
    \/ \E t \in Threads : CacheCheck(t) /\ UNCHANGED frozen
    \/ \E t \in Threads : CacheHit(t) /\ UNCHANGED frozen
    \/ \E t \in Threads : Compute(t) /\ UNCHANGED frozen
    \/ \E t \in Threads : AppendTurn(t) /\ UNCHANGED frozen
    \/ \E t \in Threads : SetLast(t) /\ UNCHANGED frozen
    \/ \E t \in Threads : Slice(t) /\ UNCHANGED frozen
    \/ \E t \in Threads : Assign(t) /\ UNCHANGED frozen
    \/ \E t \in Threads : CacheWrite(t) /\ UNCHANGED frozen

SpecConcurrent == InitConcurrent /\ [][NextConcurrent]_vars

-----------------------------------------------------------------------------
(* Properties *)

LastIsProcess == last.op = "process_message"

LastKey == CacheKey(last.message.chars, last.user_id, last.session_id)

\* C1 as stated: for every non-empty string message, a process_message call that
\* repeats the call before it returns the same response, intent, entities and
\* confidence as that call, with cached == true.
C1_RepeatIsCachedAlways ==
    (LastIsProcess /\ ~InvalidInput(last.message) /\ last.repeat) =>
        /\ last.result # None /\ last.prior # None
        /\ Core(last.result[1]) = Core(last.prior[1])
        /\ last.result[1].cached

\* C1 amended: when a process_message call returned a result whose intent is not
\* "ERROR", the same call made again right after it returns the same response,
\* intent, entities and confidence, with cached == true.
C1_RepeatIsCached ==
    (LastIsProcess /\ last.repeat /\ last.prior # None /\ last.prior[1].intent # "ERROR") =>
        /\ last.result # None
        /\ Core(last.result[1]) = Core(last.prior[1])
        /\ last.result[1].cached

\* a computed (not cached) result was just repeated from the cache
C1_Witness ==
    /\ LastIsProcess /\ last.repeat /\ last.prior # None
    /\ last.prior[1].intent # "ERROR" /\ ~last.prior[1].cached
    /\ last.path = "hit"

\* C3: process_message with a non-empty string never raises; when the intent service,
\* the entity service or a later step raises inside the pipeline, it returns the
\* result with intent "ERROR", confidence 0.0, no entities, the apology text and the
\* exception message as fallback_reason.
C3_NeverRaises ==
    (LastIsProcess /\ ~InvalidInput(last.message)) =>
        /\ ~last.raised
        /\ last.result # None
        /\ last.exception # None =>
              /\ last.result[1].intent = "ERROR"
              /\ last.result[1].confidence = 0
              /\ last.result[1].entities = <<>>
              /\ last.result[1].response = Some(ErrorResponse)
              /\ last.result[1].fallback_reason = last.exception
        /\ (last.path = "error") = (last.exception # None)

\* the entity service raised after the intent service had answered
C3_Witness ==
    /\ LastIsProcess /\ last.path = "error"
    /\ last.called = {"intent", "ner"}
    /\ last.exception = Some("NER model not loaded.")

\* C4: process_message with an empty or non-string message raises the input-validation
\* error before any service is called and returns nothing, and the step leaves the
\* context registry and the cache as they were.
C4_InvalidInputRejected ==
    /\ []((LastIsProcess /\ last.message \in InvalidMessages) =>
             /\ last.path = "invalid"
             /\ last.raised
             /\ last.exception = Some("Invalid input text.")
             /\ last.result = None
             /\ last.called = {})
    /\ [][(last' # last /\ last'.op = "process_message" /\ last'.message \in InvalidMessages)
              => (contexts' = contexts /\ cache' = cache)]_vars

\* an invalid message was rejected while contexts and cache entries existed
C4_Witness ==
    /\ LastIsProcess /\ last.path = "invalid" /\ last.message = MsgEmpty
    /\ DOMAIN contexts # {} /\ DOMAIN cache # {}

\* C7 as stated: a process_message call that hits the cache calls no service and
\* leaves the context registry unchanged: no entry is created or changed.
C7_HitLeavesContexts ==
    [][(last'.path = "hit") => (last'.called = {} /\ contexts' = contexts)]_vars

HistoryOfLast(ctxs) == GetConversationHistory(ctxs, last'.user_id, last'.session_id)

\* the step appended exactly one turn, for the message and response of the call
AppendedOneTurn ==
    LET before == HistoryOfLast(contexts)
        after  == HistoryOfLast(contexts')
    IN  /\ after # <<>>
        /\ after[Len(after)].user_message = last'.message.chars
        /\ after[Len(after)].bot_response = last'.result[1].response
        /\ \/ Len(before) < HistoryLimit /\ after = Append(before, after[Len(after)])
           \/ Len(before) = HistoryLimit /\ after = Append(Tail(before), after[Len(after)])

ReturnedNonError ==
    /\ last' # last
    /\ last'.op = "process_message"
    /\ last'.result # None
    /\ last'.result[1].intent # "ERROR"

\* C8 as stated: every process_message call that returns a result whose intent is not
\* "ERROR" has appended one turn to the history of its (user, session) and has a cache
\* entry under its composite key when it returns.
C8_NonErrorAlwaysAppends ==
    [][ReturnedNonError =>
          (AppendedOneTurn
           /\ CacheKey(last'.message.chars, last'.user_id, last'.session_id)
                 \in DOMAIN cache')]_vars

\* C8 amended: every process_message call that returns a non-ERROR result has a cache
\* entry under its composite key when it returns; it has appended exactly one turn to
\* the history of its (user, session) when the result has cached == false, and has
\* left that history as it was when the result has cached == true.
C8_NonErrorCachedAndRecorded ==
    [][ReturnedNonError =>
          /\ CacheKey(last'.message.chars, last'.user_id, last'.session_id)
                \in DOMAIN cache'
          /\ IF last'.result[1].cached
             THEN HistoryOfLast(contexts') = HistoryOfLast(contexts)
             ELSE AppendedOneTurn]_vars

\* a computed result was returned, its turn recorded and its cache entry stored
C8_Witness ==
    /\ LastIsProcess /\ last.path = "miss"
    /\ last.result[1].intent # "ERROR" /\ ~last.result[1].cached
    /\ last.message = MsgHiPadded
    /\ LET history == GetConversationHistory(contexts, last.user_id, last.session_id)
       IN  /\ Len(history) = 1
           /\ history[1].user_message = MsgHiPadded.chars
           /\ history[1].bot_response = last.result[1].response
    /\ LastKey \in DOMAIN cache

\* the first branch of the routing policy as the specification lists it that matches
SpecBranch(intent, confidence, search_loaded) ==
    LET matches(b) ==
            CASE b = 1 -> intent \in {"GREETING", "HELP", "GOODBYE", "CLARIFICATION"}
              [] b = 2 -> intent \in {"PANDUAN_KRS", "PROSEDUR_CUTI"}
              [] b = 3 -> 100 * confidence >= 85 * ConfUnit
              [] b = 4 -> 10 * confidence >= 5 * ConfUnit /\ search_loaded
              [] OTHER -> TRUE
    IN  CHOOSE b \in 1..5 : matches(b) /\ \A earlier \in 1..(b - 1) : ~matches(earlier)

\* C2: on a cache miss, whatever the intent label, the confidence and the search
\* service's loaded flag, exactly the first matching branch of the routing policy
\* produces the result: branches 1 and 3 the template engine, branches 2 and 4 the
\* search-response composer, branch 5 the fallback generator.
C2_FirstMatchingBranch ==
    (LastIsProcess /\ last.path = "miss") =>
        LET r      == last.result[1]
            text   == last.message.chars
            branch == SpecBranch(r.intent, last.intent_confidence, last.search_loaded)
            search == GenerateSearchResponse(text, r.entities, last.search_loaded)
        IN  /\ last.branch = branch
            /\ branch \in {1, 3} =>
                  /\ r.response = FillTemplate(r.intent, r.entities)
                  /\ r.search_results = None /\ r.fallback_reason = None
                  /\ "search" \notin last.called
            /\ branch \in {2, 4} =>
                  /\ "search" \in last.called
                  /\ r.response = Some(search.response)
                  /\ r.search_results = Some(search.search_results)
                  /\ r.fallback_reason # None
            /\ branch = 5 =>
                  /\ "search" \notin last.called
                  /\ r.response = Some(GenerateFallbackResponse(text))
                  /\ r.search_results = None /\ r.fallback_reason # None

\* GREETING at a confidence below both thresholds, search loaded, answered by template
C2_Witness ==
    /\ LastIsProcess /\ last.path = "miss"
    /\ last.result[1].intent = "GREETING"
    /\ last.intent_confidence < FallbackThreshold
    /\ last.search_loaded
    /\ last.branch = 1
    /\ last.result[1].response = FillTemplate("GREETING", last.result[1].entities)

\* C5: the history of every context holds at most 10 turns, and it is exactly the most
\* recent 10 (or fewer) of the turns appended to the context, in append order.
C5_HistoryIsLastTen ==
    \A ck \in DOMAIN contexts :
        LET history == contexts[ck].conversation_history
            n       == Len(appended[ck])
        IN  /\ Len(history) <= 10
            /\ Len(history) = Min(n, 10)
            /\ \A i \in 1..Len(history) :
                  history[i] = appended[ck][n - Len(history) + i]

\* an append went past the limit and the oldest turns were dropped
C5_Witness ==
    \E ck \in DOMAIN contexts :
        /\ Len(appended[ck]) > 10
        /\ Len(contexts[ck].conversation_history) = 10
        /\ contexts[ck].conversation_history[1] = appended[ck][Len(appended[ck]) - 9]

\* C6 as stated: after 10 or more process_message calls for a (user, session),
\* get_conversation_history returns exactly 10 turns, the most recent call last.
C6_TenCallsTenTurns ==
    (Served(HistUser, HistSession) >= 10) =>
        LET history == GetConversationHistory(contexts, HistUser, HistSession)
        IN  /\ Len(history) = 10
            /\ (LastIsProcess /\ last.result # None) =>
                  history[10].user_message = last.message.chars

\* C6 amended: after 10 or more turns have been appended to the context of a (user,
\* session) since it was created (one by every process_message call for it that
\* missed the cache and raised no error), get_conversation_history returns exactly 10
\* turns: the 10 most recently appended, in the order of the calls.
C6_TenAppendsTenTurns ==
    LET ck == ContextKey(HistUser, HistSession) IN
    (ck \in DOMAIN appended /\ Len(appended[ck]) >= 10) =>
        LET history == GetConversationHistory(contexts, HistUser, HistSession)
            n       == Len(appended[ck])
        IN  /\ Len(history) = 10
            /\ history = SubSeq(appended[ck], n - 9, n)
            /\ \A i \in 1..9 : history[i].timestamp < history[i + 1].timestamp

\* the history was read after more than 10 calls had each appended a turn
C6_Witness ==
    /\ last.op = "get_conversation_history"
    /\ Len(last.history) = 10
    /\ Served(HistUser, HistSession) >= 10
    /\ Len(appended[ContextKey(HistUser, HistSession)]) > 10

\* C9 as stated: a result is returned with cached == true only if an earlier
\* process_message call with the same user id, the same session id and the same
\* lower-cased trimmed message computed it, with the same response, intent, entities
\* and confidence; a result computed for another triple is never returned.
C9_CachedResultIsOwn ==
    (LastIsProcess /\ last.result # None /\ last.result[1].cached) =>
        \E c \in computed :
            /\ c.user_id = last.user_id
            /\ c.session_id = last.session_id
            /\ Lower(Strip(c.message)) = Lower(Strip(last.message.chars))
            /\ c.core = Core(last.result[1])

\* C10 as stated: a process_message or clear_context call for one (user, session) pair
\* never changes what get_conversation_history returns for a different pair, also
\* when the ids contain the separator character.
C10_PairsDoNotInterfere ==
    [][\A p \in SeparatorIdPairs :
          (/\ last' # last
           /\ last'.op \in {"process_message", "clear_context"}
           /\ <<last'.user_id, last'.session_id>> # p)
          => GetConversationHistory(contexts', p[1], p[2])
                = GetConversationHistory(contexts, p[1], p[2])]_vars

\* the tag that branch 2 attaches to a result
LongFormTag(intent) == "Intent panjang (" \o intent \o "), langsung semantic search"

\* C11: on a cache miss with intent PANDUAN_KRS or PROSEDUR_CUTI the search-response
\* composer produces the result at every confidence, also at 0.85 and above and below
\* 0.5, and loaded or not, and fallback_reason is the long-form tag naming the intent.
C11_LongFormToSearch ==
    (LastIsProcess /\ last.path = "miss"
        /\ last.result[1].intent \in {"PANDUAN_KRS", "PROSEDUR_CUTI"}) =>
        LET r      == last.result[1]
            search == GenerateSearchResponse(last.message.chars, r.entities,
                                             last.search_loaded)
        IN  /\ "search" \in last.called
            /\ r.response = Some(search.response)
            /\ r.search_results = Some(search.search_results)
            /\ r.fallback_reason = Some(LongFormTag(r.intent))

\* PANDUAN_KRS at a confidence above the intent threshold went to the composer
C11_Witness ==
    /\ LastIsProcess /\ last.path = "miss"
    /\ last.result[1].intent = "PANDUAN_KRS"
    /\ last.intent_confidence >= IntentThreshold
    /\ "search" \in last.called
    /\ last.result[1].fallback_reason = Some(LongFormTag("PANDUAN_KRS"))

\* C12: on a cache miss with an intent outside the template and long-form classes, a
\* confidence below 0.85 and either a confidence below 0.5 or a search service that is
\* not loaded, the fallback generator answers: the response is one of the 4 fixed
\* strings, fallback_reason reports very low intent confidence, the search service is
\* not called and search_results is null; an error result never comes from the search
\* service being unloaded, only from the intent or the entity service.
C12_LowConfidenceToFallback ==
    /\ (LastIsProcess /\ last.path = "miss"
          /\ last.result[1].intent \notin {"GREETING", "HELP", "GOODBYE", "CLARIFICATION",
                                           "PANDUAN_KRS", "PROSEDUR_CUTI"}
          /\ 100 * last.intent_confidence < 85 * ConfUnit
          /\ (10 * last.intent_confidence < 5 * ConfUnit \/ ~last.search_loaded)) =>
          LET r == last.result[1]
          IN  /\ Len(FallbackResponses) = 4
              /\ \E i \in 1..4 : r.response = Some(FallbackResponses[i])
              /\ r.fallback_reason =
                    Some("Very low intent confidence (" \o Fmt3(last.intent_confidence)
                         \o ")")
              /\ "search" \notin last.called
              /\ r.search_results = None
    /\ (LastIsProcess /\ last.path = "error") =>
          /\ "search" \notin last.called
          /\ last.exception \in {Some("Model not loaded."), Some("NER model not loaded.")}

\* an intent at a confidence between the thresholds fell back because the search
\* service was not loaded
C12_Witness ==
    /\ LastIsProcess /\ last.path = "miss"
    /\ last.result[1].intent = "DOSEN_PENGAMPU"
    /\ last.intent_confidence >= FallbackThreshold
    /\ last.intent_confidence < IntentThreshold
    /\ ~last.search_loaded
    /\ last.result[1].response = Some(GenerateFallbackResponse(last.message.chars))
    /\ last.result[1].search_results = None

\* C13: on a cache miss answered by the template engine, that is with a template-class
\* intent, or with an intent outside the long-form class at a confidence of 0.85 or
\* more (0.85 itself included), the result has fallback_reason null and search_results
\* null, and template_used is the intent label whenever a template is registered for it.
C13_TemplateRouteFields ==
    (LastIsProcess /\ last.path = "miss"
        /\ \/ last.result[1].intent \in {"GREETING", "HELP", "GOODBYE", "CLARIFICATION"}
           \/ /\ last.result[1].intent \notin {"PANDUAN_KRS", "PROSEDUR_CUTI"}
              /\ 100 * last.intent_confidence >= 85 * ConfUnit) =>
        LET r == last.result[1]
        IN  /\ last.branch \in {1, 3}
            /\ "search" \notin last.called
            /\ r.response = FillTemplate(r.intent, r.entities)
            /\ r.fallback_reason = None
            /\ r.search_results = None
            /\ (r.intent \in DOMAIN Templates) => (r.template_used = Some(r.intent))

\* DOSEN_PENGAMPU at exactly 0.85 was answered from its registered template
C13_Witness ==
    /\ LastIsProcess /\ last.path = "miss"
    /\ last.result[1].intent = "DOSEN_PENGAMPU"
    /\ last.intent_confidence = IntentThreshold
    /\ last.branch = 3
    /\ last.result[1].template_used = Some("DOSEN_PENGAMPU")
    /\ last.result[1].fallback_reason = None

\* C14: the fallback text depends on the message text alone: any two process_message
\* calls that took the fallback path with the same message text returned the same
\* fallback string, whatever their user id and session id and whatever was called
\* before them.
C14_FallbackByMessageOnly ==
    \A c1 \in computed : \A c2 \in computed :
        (c1.branch = 5 /\ c2.branch = 5 /\ c1.message = c2.message) =>
            /\ c1.core[1] = c2.core[1]
            /\ \E i \in 1..4 : c1.core[1] = Some(FallbackResponses[i])

\* two users got the fallback text for the same message, the second after other calls
C14_Witness ==
    \E c1 \in computed : \E c2 \in computed :
        /\ c1.branch = 5 /\ c2.branch = 5
        /\ c1.message = c2.message
        /\ c1.user_id # c2.user_id
        /\ now >= 2

\* a confidence field, kept in units of 1/10000, lies in [0.0, 1.0]
InUnitInterval(confidence) ==
    0 <= confidence /\ confidence * (ConfUnit \div 10000) <= ConfUnit

\* C15: with an intent service whose confidence is in [0, 1], every result that
\* process_message returns, computed, cached or ERROR, has 0.0 <= confidence <= 1.0, and
\* so has every result kept in the cache.
C15_ConfidenceInUnitInterval ==
    /\ (LastIsProcess /\ last.result # None) => InUnitInterval(last.result[1].confidence)
    /\ \A k \in DOMAIN cache : InUnitInterval(cache[k].confidence)

\* a result with confidence 1.0 was returned from the cache
C15_Witness ==
    /\ LastIsProcess /\ last.path = "hit"
    /\ last.result[1].cached
    /\ last.result[1].confidence * (ConfUnit \div 10000) = ConfUnit

\* C16: clear_context(u, s) does not raise, removes the context of (u, s) and changes
\* nothing else: the cache and every other context stay as they were; called when no
\* context exists for (u, s), or a second time in a row, it changes nothing at all; and
\* get_conversation_history(u, s) returns an empty list afterwards.
C16_ClearIsIdempotent ==
    [][(last' # last /\ last'.op = "clear_context") =>
          LET key == ContextKey(last'.user_id, last'.session_id)
          IN  /\ ~last'.raised /\ last'.exception = None
              /\ cache' = cache
              /\ DOMAIN contexts' = DOMAIN contexts \ {key}
              /\ \A k \in DOMAIN contexts' : contexts'[k] = contexts[k]
              /\ (key \notin DOMAIN contexts) => (contexts' = contexts)
              /\ last'.repeat => (contexts' = contexts)
              /\ GetConversationHistory(contexts', last'.user_id, last'.session_id) = <<>>
      ]_vars

\* a context was cleared a second time in a row while another context and cache
\* entries existed
C16_Witness ==
    /\ last.op = "clear_context" /\ last.repeat
    /\ ContextKey(last.user_id, last.session_id) \notin DOMAIN contexts
    /\ DOMAIN contexts # {}
    /\ DOMAIN cache # {}

\* C17: get_conversation_history(u, s) never raises and changes neither the context
\* registry nor the cache; for a pair with no context it returns an empty list and
\* creates no entry, for an existing context it returns its turns, oldest first.
C17_HistoryReadIsPure ==
    [][(last' # last /\ last'.op = "get_conversation_history") =>
          LET key == ContextKey(last'.user_id, last'.session_id)
              h   == last'.history
          IN  /\ ~last'.raised /\ last'.exception = None
              /\ contexts' = contexts
              /\ cache' = cache
              /\ IF key \in DOMAIN contexts
                 THEN /\ h = contexts[key].conversation_history
                      /\ h = SubSeq(appended[key], Len(appended[key]) - Len(h) + 1,
                                    Len(appended[key]))
                      /\ \A i \in 1..(Len(h) - 1) : h[i].timestamp < h[i + 1].timestamp
                 ELSE h = <<>> /\ key \notin DOMAIN contexts'
      ]_vars

\* the history of a pair whose context had been cleared was read, with the cache filled
C17_Witness ==
    /\ last.op = "get_conversation_history"
    /\ last.history = <<>>
    /\ ContextKey(last.user_id, last.session_id) \notin DOMAIN contexts
    /\ Cardinality(DOMAIN cache) >= 2

\* C18: under sequential calls the cache maps a composite key to one entry; an entry
\* is inserted only by a process_message call that missed the cache and processed
\* without error, under the key of that call and holding the result it returned; and no
\* operation removes an entry or changes its response, intent, entities or confidence.
C18_CacheEntriesAreStable ==
    [][/\ \A k \in DOMAIN cache :
             k \in DOMAIN cache' /\ Core(cache'[k]) = Core(cache[k])
       /\ (DOMAIN cache' # DOMAIN cache) =>
             LET key == CacheKey(last'.message.chars, last'.user_id, last'.session_id)
             IN  /\ last'.op = "process_message"
                 /\ last'.path = "miss"
                 /\ last'.exception = None
                 /\ last'.result[1].intent # "ERROR"
                 /\ key \notin DOMAIN cache
                 /\ DOMAIN cache' = DOMAIN cache \cup {key}
                 /\ Core(cache'[key]) = Core(last'.result[1])
                 /\ ~cache'[key].cached
      ]_vars

\* an entry that the search service helped to compute was served again after the
\* pair's context had been cleared and the search service unloaded
C18_Witness ==
    /\ LastIsProcess /\ last.path = "hit"
    /\ ~searchLoaded
    /\ last.result[1].search_results # None
    /\ Len(GetConversationHistory(contexts, last.user_id, last.session_id)) = 0
    /\ \E c \in computed : c.core = Core(cache[LastKey])

\* the rendering of an entity mapping as "key: value" pairs
KeyValuePairs(entities) ==
    LET pair(i) == entities[i][1] \o ": " \o PyToString(entities[i][2])
        F[i \in 0..Len(entities)] ==
            IF i = 0 THEN ""
            ELSE F[i - 1] \o (IF i > 1 THEN ", " ELSE "") \o pair(i)
    IN  F[Len(entities)]

\* C19: the composer issues one hybrid search with the raw message and top_k = 3; when
\* the result list is not empty the response is the fixed prefix followed by the text
\* of the first result, plus the "key: value" rendering of the entities when the
\* mapping is not empty, and the list is returned; when the list is empty, the service
\* is not loaded or the search raises, the response is the fallback generator's string
\* for the message and the returned list is empty.
C19_ComposerContract ==
    (last.op = "_generate_search_response") =>
        LET found == SearchResults(last.message, 3, last.search_loaded)
        IN  /\ Len(found) <= 3
            /\ (~last.search_loaded \/ last.message \in FaultyQueries) => (found = <<>>)
            /\ IF found # <<>>
               THEN /\ last.search_results = found
                    /\ last.response =
                          "Berdasarkan informasi yang saya temukan: " \o found[1].text
                          \o (IF last.entities # <<>>
                              THEN "\n\n(Entitas terdeteksi: "
                                   \o KeyValuePairs(last.entities) \o ")"
                              ELSE "")
               ELSE /\ last.search_results = <<>>
                    /\ last.response = FallbackResponses[Md5Mod4(last.message) + 1]

\* more than three documents scored, the best three were returned and two entities
\* were rendered after the text of the first
C19_Witness ==
    /\ last.op = "_generate_search_response"
    /\ last.search_loaded
    /\ Len(RankedDocuments(last.message)) > 3
    /\ Len(last.search_results) = 3
    /\ Len(last.entities) = 2
    /\ last.response = "Berdasarkan informasi yang saya temukan: Fakultas Ilmu Komputer"
                       \o "\n\n(Entitas terdeteksi: MATA_KULIAH: ml, HARI: hi)"

\* a placeholder of the mapping table for which neither the entities nor the knowledge
\* base give a value
ResolvesToNothing(intent, entities, placeholder) ==
    /\ placeholder \in EntityKeyMapping
    /\ NormalizeEntityValue(DictGet(entities, placeholder)) = <<>>
    /\ LookupFromKb(intent, placeholder, entities) \in {"", "-"}

\* C20 as stated: fill_template never raises and returns a string for every intent,
\* registered or not, also when the registered record has no template text, and for
\* every entity mapping; and every placeholder of the mapping table that occurs in the
\* template and resolves to no value is replaced by "-".
C20_FillTemplateReturnsText ==
    (last.op = "fill_template") =>
        /\ ~last.raised
        /\ last.returned # None
        /\ LET template == GetBaseTemplate(last.intent)
           IN  template # None =>
                  \A i \in 1..Len(template[1]) :
                      (template[1][i].ph
                          /\ ResolvesToNothing(last.intent, last.entities,
                                               template[1][i].text)) =>
                          FillToken(last.intent, last.entities, template[1][i]) = "-"

C22_NormalizedMapping ==
    (last.op = "normalize_entities_alias" /\ ~last.raised) =>
        /\ Len(last.returned) = Len(last.entities)
        /\ \A i \in 1..Len(last.entities) :
              LET k     == last.entities[i][1]
                  v     == last.entities[i][2]
                  out   == last.returned[i][2]
                  given == IF v.kind = "list"
                           THEN (IF v.items = <<>> THEN <<>> ELSE Strip(v.items[1]))
                           ELSE Strip(v.chars)
              IN  /\ last.returned[i][1] = k
                  /\ out.kind = "str"
                  /\ out.chars = Strip(out.chars)
                  /\ (given = <<>>) => (out.chars = <<>>)
                  /\ (k \notin {"MATA_KULIAH", "DOSEN"}) => (out.chars = given)
                  /\ (k = "MATA_KULIAH") =>
                        (out.chars = given
                         \/ \E j \in 1..Len(AllKeys(MatakuliahData)) :
                               out.chars = AllKeys(MatakuliahData)[j])
                  /\ (k = "DOSEN") =>
                        (out.chars = given
                         \/ \E j \in 1..Len(AllKeys(DosenData)) :
                               out.chars = AllKeys(DosenData)[j])

\* a padded two-element list and a padded course alias are both normalized
C22_Witness ==
    /\ last.op = "normalize_entities_alias"
    /\ ~last.raised
    /\ last.entities = << <<"HARI", PyList(<< <<"h", "i", " ">>, <<"m", "l">> >>)>>,
                          <<"MATA_KULIAH", PyList(<< <<" ", "A", "i", " ">> >>)>> >>
    /\ last.returned = << <<"HARI", PyStr(<<"h", "i">>)>>,
                          <<"MATA_KULIAH", PyStr(<<"a", "i">>)>> >>

\* C23: a process_message call that misses the cache with the intent and entity
\* services loaded, on a knowledge base that makes the normalizer raise, does not end
\* in the ERROR result: it is routed, and the result it returns, the turn it appends
\* and the cache entry it writes carry the raw mapping of the entity service.
C23_RawMappingOnFailure ==
    [][(/\ last' # last
        /\ last'.op = "process_message"
        /\ last'.path \in {"miss", "error"}
        /\ intentLoaded /\ nerLoaded
        /\ NormalizeRaises)
       => LET raw     == RawEntities(NerEntities(last'.message.chars))
              history == HistoryOfLast(contexts')
              key     == CacheKey(last'.message.chars, last'.user_id, last'.session_id)
          IN  /\ last'.path = "miss"
              /\ last'.result # None
              /\ last'.result[1].intent # "ERROR"
              /\ last'.result[1].entities = raw
              /\ last'.branch \in 1..5
              /\ history # <<>>
              /\ history[Len(history)].entities = raw
              /\ history[Len(history)].user_message = last'.message.chars
              /\ key \in DOMAIN cache'
              /\ cache'[key] = last'.result[1]]_vars

\* the list-valued mapping of " hi" went through a miss while the normalizer raised
C23_Witness ==
    /\ NormalizeRaises
    /\ LastIsProcess
    /\ last.path = "miss"
    /\ last.message = MsgHiPadded
    /\ last.result[1].entities = << <<"HARI", PyList(<< <<"h", "i">> >>)>> >>
    /\ LastKey \in DOMAIN cache
    /\ cache[LastKey].entities = << <<"HARI", PyList(<< <<"h", "i">> >>)>> >>

\* every thread is outside process_message
AllReturned == \A t \in Threads : threads[t].pc = "idle"

\* C24 as stated: when two concurrent calls with the same cache key both missed, the
\* cache holds one entry for the key, the result of one of them, and the two results
\* agree on response, intent, entities and confidence.
C24_ConcurrentMissesAgree ==
    \A t, u \in Threads :
        (/\ t # u
         /\ AllReturned
         /\ threads[t].path = "miss" /\ threads[u].path = "miss"
         /\ ThreadCacheKey(t) = ThreadCacheKey(u))
        => /\ ThreadCacheKey(t) \in DOMAIN cache
           /\ cache[ThreadCacheKey(t)] \in {threads[t].result[1], threads[u].result[1]}
           /\ Core(threads[t].result[1]) = Core(threads[u].result[1])

\* the history of the context that the registry holds for the threads' client
ConcHistory ==
    IF ConcKey \in DOMAIN contexts THEN heap[contexts[ConcKey]].conversation_history
    ELSE <<>>

\* the place of a turn among all turns appended for the client, in append order
AppendIndex(turn) == CHOOSE i \in 1..Len(appended[ConcKey]) : appended[ConcKey][i] = turn

\* C25 as stated: once all concurrent calls of one (user, session) have returned, the
\* turn of every call that took the miss path is in the pair's history (fewer than
\* HistoryLimit turns were appended after it), and the turns of the history are in the
\* order in which they were appended.
C25_NoTurnLost ==
    AllReturned =>
        /\ \A t \in Threads :
              threads[t].path = "miss" =>
                  \E i \in 1..Len(ConcHistory) : ConcHistory[i] = threads[t].turn[1]
        /\ \A i, j \in 1..Len(ConcHistory) :
              i < j => AppendIndex(ConcHistory[i]) < AppendIndex(ConcHistory[j])

\* C26: no cache entry and no turn of any history carries the intent "ERROR", a call
\* that returns the ERROR result leaves the cache and every history as they were, and
\* when the call after an ERROR result repeats its arguments while the intent and
\* entity services are loaded, it takes the miss path, calls the services again and
\* returns a result that is not ERROR with cached = FALSE.
C26_ErrorIsNotKept ==
    [][/\ \A k \in DOMAIN cache' : cache'[k].intent # "ERROR"
       /\ \A k \in DOMAIN contexts' :
             \A i \in 1..Len(contexts'[k].conversation_history) :
                 contexts'[k].conversation_history[i].intent # "ERROR"
       /\ (last' # last /\ last'.op = "process_message" /\ last'.path = "error")
             => /\ cache' = cache
                /\ HistoryOfLast(contexts') = HistoryOfLast(contexts)
       /\ (/\ last' # last
           /\ last.op = "process_message" /\ last'.op = "process_message"
           /\ last.path = "error"
           /\ last'.message = last.message
           /\ last'.user_id = last.user_id
           /\ last'.session_id = last.session_id
           /\ intentLoaded /\ nerLoaded)
             => /\ last'.path = "miss"
                /\ {"intent", "ner"} \subseteq last'.called
                /\ last'.result[1].intent # "ERROR"
                /\ last'.result[1].cached = FALSE]_vars

\* the retry of a call that had returned ERROR was computed afresh
C26_Witness ==
    /\ LastIsProcess
    /\ last.repeat
    /\ last.prior # None
    /\ last.prior[1].intent = "ERROR"
    /\ last.path = "miss"
    /\ last.result[1].intent # "ERROR"
    /\ last.result[1].cached = FALSE

\* the call that follows clear_context(u, s) is process_message(m, u, s)
ProcessAfterClear ==
    /\ last' # last
    /\ last.op = "clear_context"
    /\ last'.op = "process_message"
    /\ last'.user_id = last.user_id
    /\ last'.session_id = last.session_id

\* clear_context removed the context of its pair and nothing else
ClearRemovedOnlyItsContext ==
    (last' # last /\ last'.op = "clear_context") =>
        /\ cache' = cache
        /\ DOMAIN contexts' = DOMAIN contexts \ {ContextKey(last'.user_id, last'.session_id)}
        /\ \A k \in DOMAIN contexts' : contexts'[k] = contexts[k]

\* C27 as stated: clear_context(u, s) removes only the context of (u, s); a
\* process_message for (u, s) that follows it with a message already processed for
\* that pair returns cached == true, and the history of (u, s) is still empty.
C27_ClearedRepeatIsCachedAlways ==
    [][/\ ClearRemovedOnlyItsContext
       /\ (ProcessAfterClear /\ Served(last'.user_id, last'.session_id) >= 1)
             => /\ last'.result # None
                /\ last'.result[1].cached
                /\ HistoryOfLast(contexts') = <<>>]_vars

\* C27 amended: the same, for a message whose processing for that pair had returned
\* a result that is not ERROR.
C27_ClearedRepeatIsCached ==
    [][/\ ClearRemovedOnlyItsContext
       /\ (/\ ProcessAfterClear
           /\ \E c \in computed : /\ c.message = last'.message.chars
                                   /\ c.user_id = last'.user_id
                                   /\ c.session_id = last'.session_id)
             => /\ last'.result # None
                /\ last'.result[1].cached
                /\ last'.path = "hit"
                /\ HistoryOfLast(contexts') = <<>>]_vars

\* a pair whose context was cleared got its answer from the cache, and its history is
\* empty although the other pair still has its turn
C27_Witness ==
    /\ LastIsProcess /\ last.path = "hit"
    /\ ~last.repeat
    /\ last.result[1].cached
    /\ GetConversationHistory(contexts, last.user_id, last.session_id) = <<>>
    /\ \E k \in DOMAIN contexts : contexts[k].conversation_history # <<>>

\* C28 as stated: on a computed result template_used is set only when the response
\* came from the template engine (routing branches 1 and 3); it is null when the
\* response came from the search composer or the fallback generator.
C28_TemplateUsedOnlyFromTemplates ==
    (LastIsProcess /\ last.path = "miss") =>
        (last.result[1].template_used # None => last.branch \in {1, 3})

\* C29 as stated: with the services and the knowledge base unchanged, the response,
\* intent, entities and confidence that a cache hit returns are those that an uncached
\* run of the pipeline on the text of the call computes, also when that text differs
\* in case or surrounding whitespace from the text that was cached.
C29_CacheIsTransparent ==
    (LastIsProcess /\ last.path = "hit") =>
        Core(last.result[1])
            = Core(FreshResult(RunPipeline(last.message.chars, intentLoaded, nerLoaded,
                                           searchLoaded, intentModel), 0))

\* C30 as stated: the result object that a cache-miss call handed to its caller keeps
\* cached == false and its processing_time through every later call.
C30_HandedOutResultIsFrozen ==
    [][\A k \in DOMAIN cache :
          /\ k \in DOMAIN cache'
          /\ ReturnedByMiss(cache', k).cached = FALSE
          /\ ReturnedByMiss(cache', k).processing_time
                = ReturnedByMiss(cache, k).processing_time]_vars

====
